---- MODULE Spec2Model ----
(***************************************************************************)
(* gh-mirror: mirror every repository of a GitHub account into the current *)
(* directory (src/main.rs).  The model follows main(): one listing call to *)
(* `gh api --paginate`, then one loop iteration per repository that either *)
(* runs `git remote update --prune` or `git clone --mirror` followed by    *)
(* the installation of hooks/pre-receive.  The two external programs and   *)
(* the filesystem are the environment: their outcomes are chosen with \E.  *)
(***************************************************************************)
EXTENDS Naturals, Sequences, FiniteSets

\* ---------------------------------------------------------------- bounds
MaxItems == 3        \* repositories the account lists, at most
MaxPages == 2        \* pages gh splits the listing into, at most
MaxRuns  == 2        \* invocations of the program on the same directory

\* ------------------------------------------------------------ value sets
Names == {"a", "b"}

\* The ssh_url GitHub reports for a repository of the account.
UrlOf(n) == <<"git@github.com:user/", n, ".git">>

\* struct Repository { name, ssh_url }
Repository == {[name |-> n, ssh_url |-> UrlOf(n)] : n \in Names}

\* struct Error { message, documentation_url: Option<String> }
Messages == {"Not Found"}
DocUrls  == {"None", "https://docs"}
Error    == [message : Messages, documentation_url : DocUrls]

\* impl Display for Error: the message, then the link when there is one.
Display(e) ==
  IF e.documentation_url # "None"
    THEN <<"GitHub error: ", e.message, " (", e.documentation_url, ")">>
    ELSE <<"GitHub error: ", e.message>>

\* -------------------------------------------------- bytes on gh's stdout
\* The stream is a sequence of JSON tokens.
LB    == [t |-> "["]
RB    == [t |-> "]"]
COMMA == [t |-> ","]
RepoTok(r) == [t |-> "repo", name |-> r.name, ssh_url |-> r.ssh_url]
ErrTok(e)  == [t |-> "error", message |-> e.message,
               documentation_url |-> e.documentation_url]

RECURSIVE SerializeItems(_)
SerializeItems(page) ==
  IF page = <<>> THEN <<>>
  ELSE IF Len(page) = 1 THEN <<RepoTok(page[1])>>
  ELSE <<RepoTok(page[1]), COMMA>> \o SerializeItems(Tail(page))

\* One page as gh prints it: a JSON array of repository objects.
SerializePage(page) == <<LB>> \o SerializeItems(page) \o <<RB>>

\* gh api --paginate: the pages' arrays one after the other.
RECURSIVE Serialize(_)
Serialize(pages) ==
  IF pages = <<>> THEN <<>>
  ELSE SerializePage(pages[1]) \o Serialize(Tail(pages))

\* --------------------------------------------------------- serde parsers
ParseErr == [ok |-> FALSE]

\* The elements of Vec<Repository> after the opening bracket and a first
\* element: `]` ends the array, `,` must be followed by another object.
RECURSIVE DeserializeRest(_, _)
DeserializeRest(s, acc) ==
  IF s = <<>> THEN ParseErr
  ELSE IF s[1].t = "]" THEN [ok |-> TRUE, page |-> acc, rest |-> Tail(s)]
  ELSE IF s[1].t = "," /\ Len(s) >= 2 /\ s[2].t = "repo"
    THEN DeserializeRest(Tail(Tail(s)),
                         Append(acc, [name |-> s[2].name, ssh_url |-> s[2].ssh_url]))
  ELSE ParseErr

\* One Vec<Repository> from the head of the stream.
DeserializeVec(s) ==
  IF s = <<>> \/ s[1].t # "[" THEN ParseErr
  ELSE IF Len(s) >= 2 /\ s[2].t = "]"
    THEN [ok |-> TRUE, page |-> <<>>, rest |-> Tail(Tail(s))]
  ELSE IF Len(s) >= 2 /\ s[2].t = "repo"
    THEN DeserializeRest(Tail(Tail(s)),
                         <<[name |-> s[2].name, ssh_url |-> s[2].ssh_url]>>)
  ELSE ParseErr

\* Deserializer::from_slice(..).into_iter::<Vec<Repository>>() collected
\* into Result<Vec<Vec<Repository>>>: every page, or the first error.
RECURSIVE StreamDeserialize(_)
StreamDeserialize(s) ==
  IF s = <<>> THEN [ok |-> TRUE, pages |-> <<>>]
  ELSE LET p == DeserializeVec(s) IN
       IF ~p.ok THEN ParseErr
       ELSE LET r == StreamDeserialize(p.rest) IN
            IF ~r.ok THEN ParseErr
            ELSE [ok |-> TRUE, pages |-> <<p.page>> \o r.pages]

\* Faulty variant of Flatten: only the first page is kept.
FlattenFirstPage(pages) ==
  IF pages = <<>> THEN <<>> ELSE pages[1]

\* .into_iter().flatten()
RECURSIVE Flatten(_)
Flatten(pages) ==
  IF pages = <<>> THEN <<>> ELSE pages[1] \o Flatten(Tail(pages))

\* serde_json::from_slice::<Error>: exactly one error object, nothing after.
DeserializeError(s) ==
  IF Len(s) = 1 /\ s[1].t = "error"
    THEN [ok |-> TRUE,
          error |-> [message |-> s[1].message,
                     documentation_url |-> s[1].documentation_url]]
    ELSE ParseErr

\* Faulty variant of get_repositories: an error payload that does not
\* decode is taken for an account without repositories.
get_repositories_lenient(g) ==
  IF g.status = "nospawn" THEN [ok |-> FALSE, kind |-> "TransportError"]
  ELSE IF g.status # "ok" THEN
    LET e == DeserializeError(g.stdout) IN
    IF e.ok THEN [ok |-> FALSE, kind |-> "RemoteError", error |-> e.error,
                  text |-> Display(e.error)]
            ELSE [ok |-> TRUE, repos |-> <<>>]
  ELSE
    LET p == StreamDeserialize(g.stdout) IN
    IF p.ok THEN [ok |-> TRUE, repos |-> Flatten(p.pages)]
            ELSE [ok |-> FALSE, kind |-> "ParseError"]

\* get_repositories, given what the gh subprocess did.
\*   g.status = "nospawn" : Command::output() failed
\*   g.status = "fail"    : gh exited with a non-success status
\*   g.status = "ok"      : gh exited with success
get_repositories(g) ==
  IF g.status = "nospawn" THEN [ok |-> FALSE, kind |-> "TransportError"]
  ELSE IF g.status # "ok" THEN
    LET e == DeserializeError(g.stdout) IN
    IF e.ok THEN [ok |-> FALSE, kind |-> "RemoteError", error |-> e.error,
                  text |-> Display(e.error)]
            ELSE [ok |-> FALSE, kind |-> "ParseError"]
  ELSE
    LET p == StreamDeserialize(g.stdout) IN
    IF p.ok THEN [ok |-> TRUE, repos |-> Flatten(p.pages)]
            ELSE [ok |-> FALSE, kind |-> "ParseError"]


\* ------------------------------------------------------- the environment
\* What the account lists, cut into at most MaxPages pages by gh: the
\* cut points c[0] = 0 <= c[1] <= ... <= c[p] = Len(l).
Cuts(l, p) ==
  {c \in [0..p -> 0..Len(l)] :
     /\ c[0] = 0
     /\ c[p] = Len(l)
     /\ \A i \in 1..p : c[i-1] <= c[i]}

Paginate(l) ==
  {[i \in 1..p |-> SubSeq(l, c[i-1] + 1, c[i])] :
     <<p, c>> \in {<<q, d>> \in (0..MaxPages) \X UNION {[0..q -> 0..Len(l)] : q \in 0..MaxPages} :
                     DOMAIN d = 0..q /\ d \in Cuts(l, q)}}

\* What gh can print before a failure exit: an error object, nothing, an
\* error object followed by more output, or the listing itself.
ErrStdouts(l) ==
  {<<ErrTok(e)>> : e \in Error}
    \cup {<<>>, <<LB, RB>>}
    \cup {<<ErrTok(e), LB, RB>> : e \in Error}

\* Every way the gh subprocess can end: it cannot be started; it prints
\* the pages and exits with success; it exits with success on output cut
\* short; it exits with a failure status.
GhOutcomes(l) ==
  {[status |-> "nospawn", pages |-> <<>>, stdout |-> <<>>]}
    \cup {[status |-> "ok", pages |-> pg, stdout |-> Serialize(pg)] : pg \in Paginate(l)}
    \cup {[status |-> "ok", pages |-> pg,
           stdout |-> SubSeq(Serialize(pg), 1, Len(Serialize(pg)) - 1)] :
            pg \in {q \in Paginate(l) : q # <<>>}}
    \cup {[status |-> "fail", pages |-> <<>>, stdout |-> s] : s \in ErrStdouts(l)}

\* An entry of the current directory: what kind of thing root/name is,
\* whether it has a hooks directory, and the state of hooks/pre-receive
\* ("none", "empty" once created, "script" once written, "exec" once the
\* script also has the ugo+x bits).
Absent   == [kind |-> "absent", hooks |-> FALSE, hook |-> "none"]
PlainFile == [kind |-> "file",  hooks |-> FALSE, hook |-> "none"]
EmptyDir == [kind |-> "dir",    hooks |-> FALSE, hook |-> "none"]
FreshMirror == [kind |-> "dir", hooks |-> TRUE,  hook |-> "none"]

\* Every way `git clone --mirror --origin github url path` can end on a
\* destination in state st: it cannot be started; it exits non-zero and
\* leaves the destination as it was (git removes what it created); on a
\* destination that is absent or an empty directory it can also exit 0
\* with the mirror in place, or be killed by a signal, which leaves the
\* directory it had created so far.
GitCloneOutcomes(st) ==
  {[exit |-> "nospawn", st |-> st], [exit |-> "fail", st |-> st]}
    \cup (IF st = Absent \/ st = EmptyDir
            THEN {[exit |-> "ok", st |-> FreshMirror],
                  [exit |-> "killed", st |-> FreshMirror],
                  [exit |-> "killed", st |-> EmptyDir]}
            ELSE {})

\* Every way `git -C path remote update --prune` can end.
GitUpdateOutcomes == {"nospawn", "ok", "fail"}

\* The hook-file operation the filesystem refuses, if any.
HookFaults == {"none", "create", "write", "chmod"}

\* ------------------------------------------------------ process driver
\* Faulty variant of git_clone: the result of write_all is dropped.
git_clone_unchecked_write(g, f, ux) ==
  IF g.exit = "nospawn"
    THEN [ok |-> FALSE, kind |-> "failed to git clone", st |-> g.st]
  ELSE IF ~(g.st.kind = "dir" /\ g.st.hooks) \/ f = "create"
    THEN [ok |-> FALSE, kind |-> "failed to create hooks/pre-receive", st |-> g.st]
  ELSE IF ux /\ f = "chmod"
    THEN [ok |-> FALSE, kind |-> "failed to set permissions on hooks/pre-receive",
          st |-> [g.st EXCEPT !.hook = "script"]]
  ELSE [ok |-> TRUE,
        st |-> [g.st EXCEPT !.hook = IF f = "write" THEN "empty"
                                     ELSE IF ux THEN "exec" ELSE "script"]]

\* git_clone: the subprocess (outcome g), then File::create, write_all and,
\* on unix, set_permissions on hooks/pre-receive (fault f).
git_clone(g, f, ux) ==
  IF g.exit = "nospawn"
    THEN [ok |-> FALSE, kind |-> "failed to git clone", st |-> g.st]
  ELSE IF ~(g.st.kind = "dir" /\ g.st.hooks) \/ f = "create"
    THEN [ok |-> FALSE, kind |-> "failed to create hooks/pre-receive", st |-> g.st]
  ELSE IF f = "write"
    THEN [ok |-> FALSE, kind |-> "failed to write hooks/pre-receive",
          st |-> [g.st EXCEPT !.hook = "empty"]]
  ELSE IF ux /\ f = "chmod"
    THEN [ok |-> FALSE, kind |-> "failed to set permissions on hooks/pre-receive",
          st |-> [g.st EXCEPT !.hook = "script"]]
  ELSE [ok |-> TRUE, st |-> [g.st EXCEPT !.hook = IF ux THEN "exec" ELSE "script"]]

\* git_update: only a subprocess that cannot be started is an error.
git_update(x) ==
  IF x = "nospawn" THEN [ok |-> FALSE, kind |-> "failed to git remote update"]
                   ELSE [ok |-> TRUE]

\* Faulty variant of is_dir: the test is inverted.
is_dir_inverted(st) == st.kind # "dir"

\* Path::is_dir
is_dir(st) == st.kind = "dir"

\* --------------------------------------------------------------- state
VARIABLES
  unix,       \* cfg(unix) of the build
  listing,    \* the repositories of the account, in API order
  fs,         \* the current directory: name -> entry
  runNo,      \* which invocation of the program this is
  pc,         \* "idle" before main, "gh" waiting for gh, "loop", "exit"
  dry_run,    \* args.dry_run
  gh,         \* how the gh subprocess ended and the output captured from it
  repos,      \* the iterator get_repositories returned, as a sequence
  idx,        \* position of the for loop in repos
  out,        \* standard output: the status lines
  diag,       \* standard error: the {repo:?} lines of a dry run
  procs,      \* the subprocesses this run tried to start
  calls,      \* the git_clone / git_update calls of this run
  exitCode,   \* "running", then "success" (0) or "failure" (non-zero)
  err,        \* the error main returned, if any
  startFs,    \* history: fs when this run started
  clonedOk,   \* history: names for which a git_clone returned Ok
  created,    \* history: names whose mirror a git clone that exited 0 created
  prevCompleted, \* history: the previous run was a real run that exited 0
  npages,     \* history: pages of the listing this run parsed
  emptyRoot   \* history: the directory had no entry when the first run began

vars == <<unix, listing, fs, runNo, pc, dry_run, gh, repos, idx, out, diag,
          procs, calls, exitCode, err, startFs, clonedOk, created, prevCompleted,
          npages, emptyRoot>>

NoErr == [ok |-> TRUE]

RECURSIVE SeqsUpTo(_, _)
SeqsUpTo(S, n) ==
  IF n = 0 THEN {<<>>}
  ELSE LET prev == SeqsUpTo(S, n - 1) IN
       prev \cup {Append(s, x) : s \in {t \in prev : Len(t) = n - 1}, x \in S}

Init ==
  /\ unix \in BOOLEAN
  /\ listing \in SeqsUpTo(Repository, MaxItems)
  /\ fs \in [Names -> {Absent, PlainFile, EmptyDir}]
  /\ runNo = 1
  /\ pc = "idle"
  /\ dry_run = FALSE
  /\ gh = [status |-> "none", pages |-> <<>>, stdout |-> <<>>]
  /\ repos = <<>>
  /\ idx = 1
  /\ out = <<>>
  /\ diag = <<>>
  /\ procs = <<>>
  /\ calls = <<>>
  /\ exitCode = "running"
  /\ err = NoErr
  /\ startFs = fs
  /\ clonedOk = {}
  /\ created = {}
  /\ prevCompleted = FALSE
  /\ npages = 0
  /\ emptyRoot = (\A n \in Names : fs[n] = Absent)

\* main up to the wait for gh: Args::parse, current_dir, and the start of
\* get_repositories: Command::new("gh") ... .output().
Start ==
  /\ pc = "idle"
  /\ \E d \in BOOLEAN, g \in GhOutcomes(listing) :
       /\ dry_run' = d
       /\ gh' = g
  /\ procs' = <<"gh">>
  /\ pc' = "gh"
  /\ UNCHANGED <<unix, listing, fs, runNo, repos, idx, out, diag, calls, exitCode,
                 err, startFs, clonedOk, created, prevCompleted, npages, emptyRoot>>

\* The rest of get_repositories and the `?` of main: the captured output
\* is parsed and dropped; an error ends the process.
List ==
  /\ pc = "gh"
  /\ LET r == get_repositories(gh) IN
     IF r.ok
       THEN /\ repos' = r.repos
            /\ pc' = "loop"
            /\ gh' = [status |-> gh.status, pages |-> <<>>, stdout |-> <<>>]
            /\ npages' = Len(gh.pages)
            /\ UNCHANGED <<err, exitCode>>
       ELSE /\ pc' = "exit"
            /\ err' = r
            /\ exitCode' = "failure"
            /\ UNCHANGED <<repos, gh, npages>>
  /\ UNCHANGED <<unix, listing, fs, runNo, dry_run, idx, out, diag, procs, calls,
                 startFs, clonedOk, created, prevCompleted, emptyRoot>>

\* Faulty variant of Invokes: the dry_run flag is not consulted.
InvokesAlways(d) == TRUE

\* if !args.dry_run { git_update / git_clone }
Invokes(d) == ~d

\* if args.dry_run { eprintln!("{repo:?}") }
Eprint(repo) == IF dry_run THEN Append(diag, repo) ELSE diag

\* One iteration of the for loop on a path that is a directory.
UpdateStep ==
  /\ pc = "loop"
  /\ idx <= Len(repos)
  /\ LET repo == repos[idx] IN
     /\ is_dir(fs[repo.name])
     /\ diag' = Eprint(repo)
     /\ out' = Append(out, [verb |-> "updating", name |-> repo.name])
     /\ IF ~Invokes(dry_run)
          THEN /\ idx' = idx + 1
               /\ UNCHANGED <<pc, procs, calls, exitCode, err>>
          ELSE \E x \in GitUpdateOutcomes :
               LET r == git_update(x) IN
               /\ procs' = Append(procs, "git")
               /\ calls' = Append(calls, [op |-> "update", name |-> repo.name,
                                          url |-> <<>>, exit |-> x, fault |-> "none",
                                          ok |-> r.ok, before |-> fs[repo.name]])
               /\ IF r.ok
                    THEN /\ idx' = idx + 1
                         /\ UNCHANGED <<pc, exitCode, err>>
                    ELSE /\ pc' = "exit"
                         /\ exitCode' = "failure"
                         /\ err' = r
                         /\ UNCHANGED idx
  /\ UNCHANGED <<unix, listing, fs, runNo, dry_run, gh, repos, startFs, clonedOk,
                 created, prevCompleted, npages, emptyRoot>>

\* One iteration of the for loop on a path that is not a directory.
CloneStep ==
  /\ pc = "loop"
  /\ idx <= Len(repos)
  /\ LET repo == repos[idx] IN
     /\ ~is_dir(fs[repo.name])
     /\ diag' = Eprint(repo)
     /\ out' = Append(out, [verb |-> "cloning", name |-> repo.name])
     /\ IF ~Invokes(dry_run)
          THEN /\ idx' = idx + 1
               /\ UNCHANGED <<pc, procs, calls, exitCode, err, fs, clonedOk, created>>
          ELSE \E g \in GitCloneOutcomes(fs[repo.name]), f \in HookFaults :
               LET r == git_clone(g, f, unix) IN
               /\ procs' = Append(procs, "git")
               /\ calls' = Append(calls, [op |-> "clone", name |-> repo.name,
                                          url |-> repo.ssh_url, exit |-> g.exit,
                                          fault |-> f, ok |-> r.ok,
                                          before |-> fs[repo.name]])
               /\ fs' = [fs EXCEPT ![repo.name] = r.st]
               /\ created' = IF g.exit = "ok" THEN created \cup {repo.name}
                                              ELSE created
               /\ clonedOk' = IF r.ok THEN clonedOk \cup {repo.name} ELSE clonedOk
               /\ IF r.ok
                    THEN /\ idx' = idx + 1
                         /\ UNCHANGED <<pc, exitCode, err>>
                    ELSE /\ pc' = "exit"
                         /\ exitCode' = "failure"
                         /\ err' = r
                         /\ UNCHANGED idx
  /\ UNCHANGED <<unix, listing, runNo, dry_run, gh, repos, startFs, prevCompleted,
                 npages, emptyRoot>>

\* Faulty variant of Finish: the loop ends one descriptor early.
FinishEarly ==
  /\ pc = "loop"
  /\ idx >= Len(repos)
  /\ pc' = "exit"
  /\ exitCode' = "success"
  /\ UNCHANGED <<unix, listing, fs, runNo, dry_run, gh, repos, idx, out, diag,
                 procs, calls, err, startFs, clonedOk, created, prevCompleted,
                 npages, emptyRoot>>

\* The iterator is exhausted: Ok(()), exit status 0.
Finish ==
  /\ pc = "loop"
  /\ idx > Len(repos)
  /\ pc' = "exit"
  /\ exitCode' = "success"
  /\ UNCHANGED <<unix, listing, fs, runNo, dry_run, gh, repos, idx, out, diag,
                 procs, calls, err, startFs, clonedOk, created, prevCompleted,
                 npages, emptyRoot>>

\* The user runs the program again in the same directory.
Rerun ==
  /\ pc = "exit"
  /\ runNo < MaxRuns
  /\ runNo' = runNo + 1
  /\ pc' = "idle"
  /\ prevCompleted' = (exitCode = "success" /\ ~dry_run)
  /\ dry_run' = FALSE
  /\ gh' = [status |-> "none", pages |-> <<>>, stdout |-> <<>>]
  /\ repos' = <<>>
  /\ idx' = 1
  /\ out' = <<>>
  /\ diag' = <<>>
  /\ procs' = <<>>
  /\ calls' = <<>>
  /\ exitCode' = "running"
  /\ err' = NoErr
  /\ startFs' = fs
  /\ npages' = 0
  /\ UNCHANGED <<unix, listing, fs, clonedOk, created, emptyRoot>>

Next == Start \/ List \/ UpdateStep \/ CloneStep \/ Finish \/ Rerun

Spec == Init /\ [][Next]_vars

\* ------------------------------------------------------------ claims
\* A real (non-dry) run that returned Ok(()) from main.
Completed == pc = "exit" /\ exitCode = "success" /\ ~dry_run

\* The calls of this run made on root/n, and the descriptors named n.
CallsOn(n)  == {i \in DOMAIN calls : calls[i].name = n}
ListedAs(n) == {i \in DOMAIN listing : listing[i].name = n}
Listed == {listing[i].name : i \in DOMAIN listing}

\* C1 as stated: in a completed real run every descriptor of the listing
\* gets exactly one of clone/update, and no repository name gets more than
\* one action, also when a name is listed more than once.
C1_OneActionPerName ==
  Completed =>
    /\ Len(calls) = Len(listing)
    /\ \A i \in DOMAIN calls :
         calls[i].name = listing[i].name /\ calls[i].op \in {"clone", "update"}
    /\ \A n \in Names : Cardinality(CallsOn(n)) <= 1

\* C1 amended: in a completed real run the i-th call is one clone or update
\* of the i-th descriptor, none is skipped, and a name gets exactly as many
\* actions as the listing has descriptors of that name (one when the names
\* are distinct, k when the name is listed k times).
C1_OneActionPerDescriptor ==
  Completed =>
    /\ Len(calls) = Len(listing)
    /\ \A i \in DOMAIN calls :
         calls[i].name = listing[i].name /\ calls[i].op \in {"clone", "update"}
    /\ \A n \in Names : Cardinality(CallsOn(n)) = Cardinality(ListedAs(n))

\* A completed run on a listing that names a twice and b once.
C1_Witness ==
  /\ Completed
  /\ Cardinality(ListedAs("a")) = 2
  /\ Cardinality(ListedAs("b")) = 1

\* C2 as stated: a git_clone or git_update whose git subprocess started and
\* exited with a non-zero status returns a failure.
C2_NonZeroExitIsFailure ==
  \A i \in DOMAIN calls : calls[i].exit = "fail" => ~calls[i].ok

\* C3 as stated: the first clone or update that fails (git not started, git
\* exits non-success, hook not installed) is the last thing the run does:
\* no later status line or call, and the exit status is non-zero.
C3_AbortAtFirstFailure ==
  \A i \in DOMAIN calls :
    (calls[i].exit \in {"nospawn", "fail"} \/ ~calls[i].ok) =>
      /\ i = Len(calls)
      /\ Len(out) = i
      /\ pc = "exit"
      /\ exitCode = "failure"

\* C4: (a) a completed real run that started with no listed name being a
\* directory cloned every listed repository, the clone being the first
\* action on it; (b) a completed real run that follows a completed real
\* run performs only updates; (c) a repository for which git_clone once
\* returned Ok is classified "updating" whenever it is processed again.
C4_FirstRunClones ==
  (Completed /\ \A n \in Listed : startFs[n].kind # "dir") =>
    \A n \in Listed :
      \E i \in CallsOn(n) :
        /\ calls[i].op = "clone"
        /\ \A j \in CallsOn(n) : j >= i

C4_SecondRunUpdates ==
  (Completed /\ prevCompleted) =>
    /\ Len(calls) = Len(listing)
    /\ \A i \in DOMAIN calls : calls[i].op = "update"

C4_ClonedStaysUpdate ==
  (Len(out') = Len(out) + 1 /\ out'[Len(out')].name \in clonedOk)
     => out'[Len(out')].verb = "updating"

\* C4: two successive real runs on the same listing clone every repository
\* in the first run and only update in the second; once cloned with
\* success, a repository is classified as update by every later run.
C4_Idempotence ==
  /\ [](C4_FirstRunClones /\ C4_SecondRunUpdates)
  /\ [][C4_ClonedStaysUpdate]_vars

\* The second of two completed real runs from an empty directory, on a
\* listing of both repositories, both cloned by the first run.
C4_Witness ==
  /\ runNo = 2
  /\ emptyRoot
  /\ Completed
  /\ prevCompleted
  /\ Listed = Names
  /\ clonedOk = Names
  /\ \A i \in DOMAIN calls : calls[i].op = "update"

\* The status line main prints for a descriptor on a directory in state st.
LineFor(repo, st) ==
  [verb |-> IF st.kind = "dir" THEN "updating" ELSE "cloning", name |-> repo.name]

\* C5: a dry run starts no subprocess but gh, makes no call, leaves the
\* directory as it found it, and prints for each descriptor processed the
\* status line that matches the local state; all of them when it completes.
C5_DryRun ==
  dry_run =>
    /\ calls = <<>>
    /\ procs = <<"gh">>
    /\ fs = startFs
    /\ \A i \in DOMAIN out :
         i <= Len(listing) /\ out[i] = LineFor(listing[i], startFs[listing[i].name])
    /\ (pc = "exit" /\ exitCode = "success") => Len(out) = Len(listing)

\* A completed dry run that printed both kinds of status line.
C5_Witness ==
  /\ dry_run
  /\ pc = "exit"
  /\ exitCode = "success"
  /\ \E i, j \in DOMAIN out : out[i].verb = "updating" /\ out[j].verb = "cloning"

\* Items in the pages before page p.
RECURSIVE ItemsBefore(_, _)
ItemsBefore(pages, p) ==
  IF p <= 1 THEN 0 ELSE ItemsBefore(pages, p - 1) + Len(pages[p - 1])

\* r holds the items of the pages, page by page and in page order.
PageThenItem(r, pages) ==
  /\ Len(r) = ItemsBefore(pages, Len(pages) + 1)
  /\ \A p \in DOMAIN pages :
       \A i \in DOMAIN pages[p] : r[ItemsBefore(pages, p) + i] = pages[p][i]

\* C6, the lister: from a complete stream of N pages get_repositories
\* yields the M items in page-then-item order.
C6_ListerOrder ==
  (pc = "gh" /\ gh.status = "ok" /\ gh.stdout = Serialize(gh.pages) /\ pc' # "gh")
    => (pc' = "loop" /\ PageThenItem(repos', gh.pages))

\* C6, the reconciler: status lines and calls follow the listing, one per
\* descriptor and in its order; a run that exits 0 processed all of it.
C6_ProcessedInOrder ==
  (pc \in {"loop", "exit"} /\ gh.status = "ok" /\ err.ok) =>
    /\ repos = listing
    /\ Len(out) <= Len(repos)
    /\ pc = "loop" => Len(out) = idx - 1
    /\ \A i \in DOMAIN out : out[i].name = repos[i].name
    /\ ~dry_run =>
         /\ Len(calls) = Len(out)
         /\ \A i \in DOMAIN calls :
              /\ calls[i].name = repos[i].name
              /\ calls[i].op = (IF out[i].verb = "updating" THEN "update" ELSE "clone")
              /\ calls[i].op = "clone" => calls[i].url = repos[i].ssh_url
    /\ (pc = "exit" /\ exitCode = "success") => Len(out) = Len(repos)

\* C6: for every successful listing of N pages holding M items the lister
\* yields the M descriptors in page-then-item order and the reconciler
\* processes them in that order, nothing reordered, left out or repeated.
C6_Order == [][C6_ListerOrder]_vars /\ []C6_ProcessedInOrder

\* A completed run over a listing of three items that came in two pages.
C6_Witness ==
  /\ pc = "exit"
  /\ exitCode = "success"
  /\ npages = 2
  /\ Len(out) = 3
  /\ out[1].name # out[2].name

\* stdout is one JSON error object and nothing else.
IsErrorObject(s) == Len(s) = 1 /\ s[1].t = "error"

\* C7: once get_repositories has returned after a failure exit of gh, the
\* run has failed without a descriptor, a status line or a call; the error
\* is a RemoteError with the object's message and link when stdout is an
\* error object, and a ParseError when it is not.
C7_ListingFails ==
  (gh.status = "fail" /\ pc # "gh") =>
    /\ pc = "exit"
    /\ exitCode = "failure"
    /\ repos = <<>> /\ out = <<>> /\ calls = <<>> /\ procs = <<"gh">>
    /\ ~err.ok
    /\ IF IsErrorObject(gh.stdout)
         THEN /\ err.kind = "RemoteError"
              /\ err.error.message = gh.stdout[1].message
              /\ err.error.documentation_url = gh.stdout[1].documentation_url
              /\ \E k \in DOMAIN err.text : err.text[k] = gh.stdout[1].message
              /\ gh.stdout[1].documentation_url # "None" =>
                   \E k \in DOMAIN err.text : err.text[k] = gh.stdout[1].documentation_url
         ELSE err.kind = "ParseError"

\* gh failed with an error object that has a documentation link.
C7_Witness ==
  /\ gh.status = "fail"
  /\ pc = "exit"
  /\ IsErrorObject(gh.stdout)
  /\ gh.stdout[1].documentation_url # "None"
  /\ err.kind = "RemoteError"

\* The clone calls of this run.
Clones == {i \in DOMAIN calls : calls[i].op = "clone"}

\* C8 as stated: git_clone returns Ok only if hooks/pre-receive was created,
\* written and made executable for owner, group and other.
C8_OkMeansExecutableHook ==
  \A i \in Clones : calls[i].ok => fs[calls[i].name].hook = "exec"

\* C8 amended: git_clone returns Ok only if hooks/pre-receive was created
\* in the mirror and written with the script, and, in a unix build, made
\* executable (other builds do not touch the mode); a refused create or
\* write, and in a unix build a refused chmod, make git_clone fail.
C8_OkMeansHookInstalled ==
  \A i \in Clones :
    /\ calls[i].ok =>
         /\ fs[calls[i].name].kind = "dir"
         /\ fs[calls[i].name].hooks
         /\ fs[calls[i].name].hook = (IF unix THEN "exec" ELSE "script")
         /\ calls[i].fault \notin {"create", "write"}
         /\ unix => calls[i].fault # "chmod"
    /\ (calls[i].exit # "nospawn"
          /\ (calls[i].fault \in {"create", "write"} \/ (unix /\ calls[i].fault = "chmod")))
         => ~calls[i].ok

\* A unix build cloned a repository and installed the executable hook.
C8_Witness ==
  /\ unix
  /\ \E i \in Clones :
       calls[i].ok /\ calls[i].exit = "ok" /\ fs[calls[i].name].hook = "exec"

\* C9 as stated: git_clone is only called on a path that does not exist or
\* is an empty directory, git_update only on a directory.
C9_Preconditions ==
  \A i \in DOMAIN calls :
    /\ calls[i].op = "clone" => calls[i].before \in {Absent, EmptyDir}
    /\ calls[i].op = "update" => calls[i].before.kind = "dir"

\* C10 as stated, for a unix build: starting from an empty directory, every
\* directory that a successful git clone of this program created and that a
\* run classifies as update holds the executable hook.
C10_UpdatedMirrorsHaveHook ==
  (unix /\ emptyRoot) =>
    \A i \in DOMAIN out :
      (out[i].verb = "updating" /\ out[i].name \in created)
         => fs[out[i].name].hook = "exec"

====
